---- MODULE Spec2Model ----
(***************************************************************************)
(* Model of RyzePixelSender.execute                                        *)
(* (src/nodes/RyzePixelSender/RyzePixelSender.node.ts).                    *)
(*                                                                         *)
(* One invocation of execute() is a sequence of steps separated by its     *)
(* awaits: validation, connect, batched SELECT, classification, one        *)
(* httpRequest per transmission-set event, one multi-row INSERT, one       *)
(* UPDATE per updated event, the report, and the finally block.  The       *)
(* scraper_tokens table (src/README.md) is the persistent state.           *)
(***************************************************************************)
EXTENDS Integers, Sequences, FiniteSets, TLC

\* ------------------------------------------------------------------------
\* Bounds
\* ------------------------------------------------------------------------
MaxEvents == 2

\* ------------------------------------------------------------------------
\* Values.  Amounts are counted in thousandths so that DECIMAL(10,2)
\* rounding is visible.  A JS value is a number, a DECIMAL string as
\* mysql2 returns it, or undefined (the field was omitted).
\* ------------------------------------------------------------------------
Num(n) == [k |-> "num", v |-> n]
Dec(n) == [k |-> "dec", v |-> n]
Undef == [k |-> "undef", v |-> 0]

NaN == -1

\* JS Number(x): a number is itself, a DECIMAL string parses to its value,
\* undefined is NaN.
Number(x) == IF x.k = "undef" THEN NaN ELSE x.v

\* JS a === b on numbers: NaN is equal to nothing, itself included.
StrictEq(a, b) == a # NaN /\ b # NaN /\ a = b

\* DECIMAL(10,2) column: a written number is rounded to hundredths and
\* read back as a DECIMAL string.
ToDecimal(x) == Dec(((x.v + 5) \div 10) * 10)

\* Strings are sequences of characters; an omitted string is undefined.
Str(s) == [k |-> "str", s |-> s]
NoStr == [k |-> "undef", s |-> <<>>]

\* JS truthiness of a required field: undefined and "" are falsy.
Falsy(x) == x.k = "undef" \/ x.s = <<>>

TrxIds == {"t1", "t2"}

\* ------------------------------------------------------------------------
\* Input events (items[i].json) and stored rows
\* ------------------------------------------------------------------------
Mk(t, a, c) ==
    [date |-> Str(<<"d">>), token |-> Str(<<"k">>), event |-> Str(<<"s">>),
     trx_id |-> Str(<<t>>), io_id |-> Str(<<"i">>),
     commission_amount |-> c, amount |-> a,
     currency |-> Str(<<"U">>), parent_api_call |-> Str(<<"E">>)]

BaseEvent == Mk("t1", Num(1000), Num(0))

PlainEvents ==
    {Mk(t, a, Num(0)) : t \in TrxIds, a \in {Num(0), Num(1000)}}
    \cup {Mk("t1", Num(0), Num(1000)), Mk("t2", Num(1004), Num(0))}

OtherFieldEvents ==
    {[BaseEvent EXCEPT !.currency = Str(<<"R">>), !.token = Str(<<"z">>)]}

OmittedOptionalEvents ==
    {Mk("t1", Undef, Num(0)),
     Mk("t1", Num(0), Undef),
     [Mk("t1", Num(0), Num(0)) EXCEPT !.currency = NoStr],
     [Mk("t2", Num(0), Num(0)) EXCEPT !.parent_api_call = NoStr]}

MissingRequiredEvents ==
    {[BaseEvent EXCEPT !.date = NoStr],
     [BaseEvent EXCEPT !.token = Str(<<>>)],
     [BaseEvent EXCEPT !.event = NoStr],
     [BaseEvent EXCEPT !.trx_id = NoStr],
     [BaseEvent EXCEPT !.io_id = Str(<<>>)]}

\* parent_api_call "p;fico:A" and "xfico"; every other event carries "E".
FicoEvents ==
    {[BaseEvent EXCEPT !.parent_api_call =
         Str(<<"p", ";", "f", "i", "c", "o", ":", "A">>)],
     [BaseEvent EXCEPT !.parent_api_call = Str(<<"x", "f", "i", "c", "o">>)]}

EventSet ==
    PlainEvents \cup OtherFieldEvents \cup OmittedOptionalEvents
    \cup MissingRequiredEvents \cup FicoEvents

Batches == UNION {[1..n -> EventSet] : n \in 0..MaxEvents}

Row(t, a, c) == [trx_id |-> Str(<<t>>), amount |-> Dec(a), commission_amount |-> Dec(c)]

InitDbs ==
    {<<>>,
     <<Row("t1", 0, 0)>>,
     <<Row("t1", 1000, 0)>>,
     <<Row("t2", 0, 0), Row("t1", 1000, 0)>>,
     <<Row("t2", 1000, 0)>>}

\* ------------------------------------------------------------------------
\* State
\* ------------------------------------------------------------------------
VARIABLES
    items,            \* this.getInputData(): the raw input events
    dryRun,           \* options.dryRun
    skipDedup,        \* options.skipDedup
    db,               \* the scraper_tokens table, rows in insertion order
    db0,              \* the table as it was when the invocation started
    pc,               \* position of execute()
    inputItems,       \* validated InputItem[]
    connection,       \* "null", "open" or "closed"
    existingRecords,  \* rows returned by the batched SELECT
    processedItems,   \* ProcessedItem[]
    sendPos,          \* position of the dispatch loop in toSend
    updPos,           \* position of the update loop in existingToUpdate
    pixelSuccess,
    pixelFailed,
    dbInserted,
    dbUpdated,
    output,           \* what execute() returns or throws
    lookups,          \* history: the id lists of the SELECTs issued
    sendCalls,        \* history: input positions passed to httpRequest
    inserts,          \* history: the INSERT statements issued
    updates,          \* history: the UPDATE statements issued
    failedAt,         \* history: the step that raised, "none" if none did
    payloads,         \* history: the payloads passed to httpRequest
    rerun             \* history: this invocation repeats the batch of a
                      \* clean invocation that ended just before it
                      \* (between invocations: the one that ended was clean)

vars ==
    <<items, dryRun, skipDedup, db, db0, pc, inputItems, connection,
      existingRecords, processedItems, sendPos, updPos, pixelSuccess,
      pixelFailed, dbInserted, dbUpdated, output, lookups, sendCalls,
      inserts, updates, failedAt, payloads, rerun>>

\* ------------------------------------------------------------------------
\* Validation (lines 159-181)
\* ------------------------------------------------------------------------
\* The check without the io_id test.
MissingRequired_NoIoId(item) ==
    Falsy(item.date) \/ Falsy(item.token) \/ Falsy(item.event)
    \/ Falsy(item.trx_id)

MissingRequired(item) ==
    Falsy(item.date) \/ Falsy(item.token) \/ Falsy(item.event)
    \/ Falsy(item.trx_id) \/ Falsy(item.io_id)

RECURSIVE ValidateFrom(_, _)
\* The validation loop from position i: the position of the first item that
\* fails the check, 0 when the loop runs to the end.
ValidateFrom(its, i) ==
    IF i > Len(its) THEN 0
    ELSE IF MissingRequired(its[i]) THEN i
    ELSE ValidateFrom(its, i + 1)

ExpectedFields ==
    <<"date", "token", "event", "trx_id", "io_id", "commission_amount",
      "amount", "currency", "parent_api_call">>

\* The error carrying the one-based position.
ValidationError_OneBased(i) ==
    [kind |-> "validation", itemIndex |-> i, expected |-> ExpectedFields]

\* NodeOperationError thrown by the loop for the item at position i
\* (itemIndex is zero-based).
ValidationError(i) ==
    [kind |-> "validation", itemIndex |-> i - 1, expected |-> ExpectedFields]

ToInputItem(item) ==
    [date |-> item.date, token |-> item.token, event |-> item.event,
     trx_id |-> item.trx_id, io_id |-> item.io_id,
     commission_amount |-> item.commission_amount, amount |-> item.amount,
     currency |-> item.currency, parent_api_call |-> item.parent_api_call]

\* The lookup made whatever the flag.
StepAfterValidate_AlwaysConnect(skip) == "connect"

\* if (!skipDedup) { connect; select } (line 192)
StepAfterValidate(skip) == IF skip THEN "classify" ELSE "connect"

\* ------------------------------------------------------------------------
\* Lookup (lines 206-215)
\* ------------------------------------------------------------------------
\* The lookup asking for the first item's id only.
TrxIdList_First(its) == IF its = <<>> THEN <<>> ELSE <<its[1].trx_id>>

TrxIdList(its) == [i \in 1..Len(its) |-> its[i].trx_id]

\* SELECT ... WHERE trx_id IN (ids)
SelectRows(table, ids) ==
    SelectSeq(table, LAMBDA r : \E i \in 1..Len(ids) : ids[i] = r.trx_id)

\* ------------------------------------------------------------------------
\* Classification (lines 225-260)
\* ------------------------------------------------------------------------
NoRecord == [trx_id |-> NoStr, amount |-> Undef, commission_amount |-> Undef]

\* existingRecords.find(row => row.trx_id === item.trx_id)
Find(records, trx) ==
    LET hits == {i \in 1..Len(records) : records[i].trx_id = trx}
    IN IF hits = {} THEN NoRecord
       ELSE records[CHOOSE i \in hits : \A j \in hits : i <= j]

\* The comparison without the commission.
ClassifyStatus_AmountOnly(item, existing) ==
    IF existing = NoRecord THEN "new"
    ELSE IF StrictEq(Number(existing.amount), Number(item.amount))
         THEN "duplicate"
    ELSE "updated"

ClassifyStatus(item, existing) ==
    IF existing = NoRecord THEN "new"
    ELSE IF StrictEq(Number(existing.amount), Number(item.amount))
            /\ StrictEq(Number(existing.commission_amount),
                        Number(item.commission_amount))
         THEN "duplicate"
    ELSE "updated"

\* Every status sent.
ActionOf_SendAll(status) == "send_to_pixel"

ActionOf(status) == IF status = "duplicate" THEN "skip" ELSE "send_to_pixel"

ClassifyItem(item, records) ==
    LET existing == Find(records, item.trx_id)
        status == ClassifyStatus(item, existing)
    IN [item |-> item, status |-> status, action |-> ActionOf(status),
        existing |-> existing, pixelStatus |-> "none", pixelError |-> "none"]

ClassifyAll(its, records) ==
    [i \in 1..Len(its) |-> ClassifyItem(its[i], records)]

Positions(n) == [i \in 1..n |-> i]

\* The positions in processedItems of the filtered lists of lines 257-260
\* and 378-383 (a filter keeps the order).
WithStatus(processed, st) ==
    SelectSeq(Positions(Len(processed)), LAMBDA i : processed[i].status = st)

ToSend(processed) ==
    SelectSeq(Positions(Len(processed)),
              LAMBDA i : processed[i].action = "send_to_pixel")

\* The filter without the pixelStatus test.
SuccessfulSends_All(processed) == ToSend(processed)

SuccessfulSends(processed) ==
    SelectSeq(ToSend(processed), LAMBDA i : processed[i].pixelStatus = "OK")

NewToInsert(processed) ==
    SelectSeq(SuccessfulSends(processed), LAMBDA i : processed[i].status = "new")

ExistingToUpdate(processed) ==
    SelectSeq(SuccessfulSends(processed),
              LAMBDA i : processed[i].status = "updated")

\* The dispatch guard without the dry-run test.
StepAfterClassify_IgnoreDryRun(dry, processed) ==
    IF Len(ToSend(processed)) > 0 THEN "send" ELSE "report"

\* if (!dryRun && toSend.length > 0) (line 286); the write step of line 377
\* needs the same two conditions, so it is skipped with the dispatch.
StepAfterClassify(dry, processed) ==
    IF ~dry /\ Len(ToSend(processed)) > 0 THEN "send" ELSE "report"

\* if (!dryRun && connection && toSend.length > 0), then
\* successfulSends.length > 0 and newToInsert.length > 0 (lines 377-386)
StepAfterDispatch(dry, conn, processed) ==
    IF ~dry /\ conn # "null" /\ Len(ToSend(processed)) > 0
       /\ Len(SuccessfulSends(processed)) > 0
    THEN IF Len(NewToInsert(processed)) > 0 THEN "insert"
         ELSE IF Len(ExistingToUpdate(processed)) > 0 THEN "update"
         ELSE "report"
    ELSE "report"

\* if (existingToUpdate.length > 0) (line 404)
StepAfterInsert(processed) ==
    IF Len(ExistingToUpdate(processed)) > 0 THEN "update" ELSE "report"

\* ------------------------------------------------------------------------
\* Dispatch (lines 292-355)
\* ------------------------------------------------------------------------
\* pat occurs in s at the 0-based position p.
OccursAt(s, pat, p) ==
    p + Len(pat) <= Len(s) /\ SubSeq(s, p + 1, p + Len(pat)) = pat

\* String.prototype.indexOf: the first position of pat in s, -1 if none.
IndexOf(s, pat) ==
    IF \E p \in 0..Len(s) : OccursAt(s, pat, p)
    THEN CHOOSE p \in 0..Len(s) :
            OccursAt(s, pat, p) /\ \A q \in 0..(p - 1) : ~OccursAt(s, pat, q)
    ELSE -1

\* String.prototype.includes
Includes(s, pat) == IndexOf(s, pat) # -1

\* String.prototype.substring(start): start is clamped to 0..length.
Substring(s, start) ==
    LET from == IF start < 0 THEN 0 ELSE IF start > Len(s) THEN Len(s) ELSE start
    IN SubSeq(s, from + 1, Len(s))

Null == [k |-> "null", s |-> <<>>]

\* Lines 316-318: includes('fico') ? substring(indexOf('fico:') + 5) : null
Fico(s) ==
    IF Includes(s, <<"f", "i", "c", "o">>)
    THEN Str(Substring(s, IndexOf(s, <<"f", "i", "c", "o", ":">>) + 5))
    ELSE Null

\* The part of the payload that depends on parent_api_call (lines 297-320).
Payload(item) ==
    [trxId |-> item.trx_id, parent_api_call |-> item.parent_api_call,
     fico |-> Fico(item.parent_api_call.s)]

\* What httpRequest can do: answer {status: "OK"}, answer an error
\* indicator, or raise a transport error.
SendOutcomes == {"OK", "ERROR", "THROW"}

\* The ProcessedItem after one pass of the loop body (lines 341-354).
Dispatched(p, outcome) ==
    IF outcome = "OK" THEN [p EXCEPT !.pixelStatus = "OK"]
    ELSE IF outcome = "ERROR"
         THEN [p EXCEPT !.pixelStatus = "ERROR", !.pixelError = "Invalid io_id"]
    ELSE [p EXCEPT !.pixelStatus = "ERROR", !.pixelError = "Request failed"]

\* ------------------------------------------------------------------------
\* Record-store writes (lines 385-414) and the table (src/README.md)
\* ------------------------------------------------------------------------
\* The bind parameters with amount and commission_amount exchanged.
WriteParams_Swapped(item) ==
    [trx_id |-> item.trx_id, amount |-> item.commission_amount,
     commission_amount |-> item.amount]

\* One bind-parameter triple per item (lines 387-392, 410).
WriteParams(item) ==
    [trx_id |-> item.trx_id, amount |-> item.amount,
     commission_amount |-> item.commission_amount]

InsertValues(processed) ==
    LET new == NewToInsert(processed)
    IN [j \in 1..Len(new) |-> WriteParams(processed[new[j]].item)]

\* mysql2 refuses a statement whose bind parameters contain undefined.
HasUndefParam(row) ==
    row.amount.k = "undef" \/ row.commission_amount.k = "undef"

\* The table without its UNIQUE constraint.
UniqueViolation_Never(table, rows) == FALSE

\* trx_id VARCHAR(255) UNIQUE NOT NULL
UniqueViolation(table, rows) ==
    \/ \E j \in 1..Len(rows) : \E i \in 1..Len(table) :
          table[i].trx_id = rows[j].trx_id
    \/ \E j, k \in 1..Len(rows) : j # k /\ rows[j].trx_id = rows[k].trx_id

\* The row as the table stores it: amount DECIMAL(10,2).
StoredRow(row) ==
    [trx_id |-> row.trx_id, amount |-> ToDecimal(row.amount),
     commission_amount |-> ToDecimal(row.commission_amount)]

InsertRows(table, rows) ==
    table \o [j \in 1..Len(rows) |-> StoredRow(rows[j])]

\* UPDATE scraper_tokens SET amount = ?, commission_amount = ? WHERE trx_id = ?
UpdateRows(table, row) ==
    [i \in 1..Len(table) |->
        IF table[i].trx_id = row.trx_id THEN StoredRow(row) ELSE table[i]]

\* ------------------------------------------------------------------------
\* Results (lines 433-549)
\* ------------------------------------------------------------------------
Summary(dry, n, processed, ps, pf, di, du) ==
    IF dry
    THEN [kind |-> "dry_run",
          summary |->
            [total_input |-> n,
             new_items |-> Len(WithStatus(processed, "new")),
             exact_duplicates |-> Len(WithStatus(processed, "duplicate")),
             updated_items |-> Len(WithStatus(processed, "updated")),
             would_send_to_pixel |-> Len(ToSend(processed)),
             status |-> "DRY_RUN_SKIPPED"]]
    ELSE [kind |-> "normal",
          summary |->
            [total_input |-> n,
             new_items |-> Len(WithStatus(processed, "new")),
             exact_duplicates |-> Len(WithStatus(processed, "duplicate")),
             updated_items |-> Len(WithStatus(processed, "updated")),
             sent_to_pixel |-> Len(ToSend(processed)),
             pixel_success |-> ps,
             pixel_failed |-> pf,
             db_inserted |-> di,
             db_updated |-> du]]

\* The error object reporting the input size as processed.
ErrorOutput_ProcessedAll(code, n) ==
    [kind |-> "error", success |-> FALSE,
     error |-> [code |-> code, stage |-> "execution"],
     summary |-> [total_input |-> n, processed |-> n]]

\* The error object with the success flag of a normal result.
ErrorOutput_SuccessTrue(code, n) ==
    [kind |-> "error", success |-> TRUE,
     error |-> [code |-> code, stage |-> "execution"],
     summary |-> [total_input |-> n, processed |-> 0]]

\* The object built by the catch block; code is error.code || 'UNKNOWN_ERROR'.
ErrorOutput(code, n) ==
    [kind |-> "error", success |-> FALSE,
     error |-> [code |-> code, stage |-> "execution"],
     summary |-> [total_input |-> n, processed |-> 0]]

\* The catch block swallowing the error: execution goes on to the report.
StepAfterCatch_Swallow == "report"

\* if (connection) { await connection.end() } (lines 552-554) forgotten.
EndConnection_Leak(conn) == conn

\* if (connection) { await connection.end() } (lines 552-554)
EndConnection(conn) == IF conn = "open" THEN "closed" ELSE conn

\* Where execute() goes when a step inside the try block raises: the catch
\* block builds the error object, then the finally block runs.
StepAfterCatch == "finally"

NoOutput == [kind |-> "none"]

\* ------------------------------------------------------------------------
\* Init: the state when execute() is entered
\* ------------------------------------------------------------------------
Init ==
    /\ items \in Batches
    /\ dryRun \in BOOLEAN
    /\ skipDedup \in BOOLEAN
    /\ db \in InitDbs
    /\ db0 = db
    /\ pc = "validate"
    /\ inputItems = <<>>
    /\ connection = "null"
    /\ existingRecords = <<>>
    /\ processedItems = <<>>
    /\ sendPos = 1
    /\ updPos = 1
    /\ pixelSuccess = 0
    /\ pixelFailed = 0
    /\ dbInserted = 0
    /\ dbUpdated = 0
    /\ output = NoOutput
    /\ lookups = <<>>
    /\ sendCalls = <<>>
    /\ inserts = <<>>
    /\ updates = <<>>
    /\ failedAt = "none"
    /\ payloads = <<>>
    /\ rerun = FALSE

\* A step inside the try block raises: catch (lines 523-549).
Raise(stage, code) ==
    /\ pc' = StepAfterCatch
    /\ output' = ErrorOutput(code, Len(items))
    /\ failedAt' = stage

\* ------------------------------------------------------------------------
\* Steps of execute()
\* ------------------------------------------------------------------------
\* Lines 159-181, every item passes: inputItems is filled, the try block is
\* entered.
ValidateOk ==
    /\ pc = "validate"
    /\ ValidateFrom(items, 1) = 0
    /\ inputItems' = [i \in 1..Len(items) |-> ToInputItem(items[i])]
    /\ pc' = StepAfterValidate(skipDedup)
    /\ UNCHANGED <<items, dryRun, skipDedup, db, db0, connection,
                   existingRecords, processedItems, sendPos, updPos,
                   pixelSuccess, pixelFailed, dbInserted, dbUpdated, output,
                   lookups, sendCalls, inserts, updates, failedAt>>
    /\ UNCHANGED <<payloads, rerun>>

\* Lines 163-168: the throw is outside the try block, so neither the catch
\* nor the finally block runs.
ValidateFail ==
    /\ pc = "validate"
    /\ ValidateFrom(items, 1) # 0
    /\ output' = ValidationError(ValidateFrom(items, 1))
    /\ failedAt' = "validation"
    /\ pc' = "failed"
    /\ UNCHANGED <<items, dryRun, skipDedup, db, db0, inputItems, connection,
                   existingRecords, processedItems, sendPos, updPos,
                   pixelSuccess, pixelFailed, dbInserted, dbUpdated,
                   lookups, sendCalls, inserts, updates>>
    /\ UNCHANGED <<payloads, rerun>>

\* Lines 198-204: createConnection resolves.
ConnectOk ==
    /\ pc = "connect"
    /\ connection' = "open"
    /\ pc' = "query"
    /\ UNCHANGED <<items, dryRun, skipDedup, db, db0, inputItems,
                   existingRecords, processedItems, sendPos, updPos,
                   pixelSuccess, pixelFailed, dbInserted, dbUpdated, output,
                   lookups, sendCalls, inserts, updates, failedAt>>
    /\ UNCHANGED <<payloads, rerun>>

\* createConnection rejects: connection stays null.
ConnectFail ==
    /\ pc = "connect"
    /\ Raise("connect", "ECONNREFUSED")
    /\ UNCHANGED <<items, dryRun, skipDedup, db, db0, inputItems, connection,
                   existingRecords, processedItems, sendPos, updPos,
                   pixelSuccess, pixelFailed, dbInserted, dbUpdated,
                   lookups, sendCalls, inserts, updates>>
    /\ UNCHANGED <<payloads, rerun>>

\* Lines 206-215: the batched SELECT returns the matching rows.  An empty
\* IN list is a syntax error, so the SELECT can succeed only with ids.
QueryOk ==
    /\ pc = "query"
    /\ Len(TrxIdList(inputItems)) > 0
    /\ lookups' = Append(lookups, TrxIdList(inputItems))
    /\ existingRecords' = SelectRows(db, TrxIdList(inputItems))
    /\ pc' = "classify"
    /\ UNCHANGED <<items, dryRun, skipDedup, db, db0, inputItems, connection,
                   processedItems, sendPos, updPos, pixelSuccess, pixelFailed,
                   dbInserted, dbUpdated, output, sendCalls, inserts, updates,
                   failedAt>>
    /\ UNCHANGED <<payloads, rerun>>

\* The SELECT fails: WHERE trx_id IN () is rejected, and any query can fail.
QueryFail ==
    /\ pc = "query"
    /\ lookups' = Append(lookups, TrxIdList(inputItems))
    /\ Raise("lookup",
             IF Len(TrxIdList(inputItems)) = 0 THEN "ER_PARSE_ERROR"
             ELSE "PROTOCOL_CONNECTION_LOST")
    /\ UNCHANGED <<items, dryRun, skipDedup, db, db0, inputItems, connection,
                   existingRecords, processedItems, sendPos, updPos,
                   pixelSuccess, pixelFailed, dbInserted, dbUpdated,
                   sendCalls, inserts, updates>>
    /\ UNCHANGED <<payloads, rerun>>

\* Lines 225-260: the classification loop and the filtered lists.
Classify ==
    /\ pc = "classify"
    /\ processedItems' = ClassifyAll(inputItems, existingRecords)
    /\ pc' = StepAfterClassify(dryRun, processedItems')
    /\ UNCHANGED <<items, dryRun, skipDedup, db, db0, inputItems, connection,
                   existingRecords, sendPos, updPos, pixelSuccess, pixelFailed,
                   dbInserted, dbUpdated, output, lookups, sendCalls, inserts,
                   updates, failedAt>>
    /\ UNCHANGED <<payloads, rerun>>

\* Lines 292-355, one pass of the loop for an item whose payload can be
\* built: httpRequest is called and its outcome recorded.
SendItem ==
    /\ pc = "send"
    /\ LET toSend == ToSend(processedItems)
           i == toSend[sendPos]
       IN /\ processedItems[i].item.parent_api_call.k # "undef"
          /\ \E outcome \in SendOutcomes :
               /\ sendCalls' = Append(sendCalls, i)
               /\ payloads' = Append(payloads, Payload(processedItems[i].item))
               /\ processedItems' =
                    [processedItems EXCEPT ![i] = Dispatched(@, outcome)]
               /\ pixelSuccess' =
                    IF outcome = "OK" THEN pixelSuccess + 1 ELSE pixelSuccess
               /\ pixelFailed' =
                    IF outcome = "OK" THEN pixelFailed ELSE pixelFailed + 1
          /\ sendPos' = sendPos + 1
          /\ pc' = IF sendPos < Len(toSend) THEN "send"
                   ELSE StepAfterDispatch(dryRun, connection, processedItems')
    /\ UNCHANGED <<items, dryRun, skipDedup, db, db0, inputItems, connection,
                   existingRecords, updPos, dbInserted, dbUpdated, output,
                   lookups, inserts, updates, failedAt>>
    /\ UNCHANGED rerun

\* Lines 313-319: parent_api_call is undefined, so .includes raises a
\* TypeError while the payload is built, outside the inner try.
SendPayloadError ==
    /\ pc = "send"
    /\ LET i == ToSend(processedItems)[sendPos]
       IN processedItems[i].item.parent_api_call.k = "undef"
    /\ Raise("dispatch", "UNKNOWN_ERROR")
    /\ UNCHANGED <<items, dryRun, skipDedup, db, db0, inputItems, connection,
                   existingRecords, processedItems, sendPos, updPos,
                   pixelSuccess, pixelFailed, dbInserted, dbUpdated,
                   lookups, sendCalls, inserts, updates>>
    /\ UNCHANGED <<payloads, rerun>>

\* Lines 385-401: the multi-row INSERT succeeds.
InsertOk ==
    /\ pc = "insert"
    /\ LET rows == InsertValues(processedItems)
       IN /\ \A j \in 1..Len(rows) : ~HasUndefParam(rows[j])
          /\ ~UniqueViolation(db, rows)
          /\ inserts' = Append(inserts, [rows |-> rows, ok |-> TRUE])
          /\ db' = InsertRows(db, rows)
          /\ dbInserted' = Len(NewToInsert(processedItems))
    /\ pc' = StepAfterInsert(processedItems)
    /\ UNCHANGED <<items, dryRun, skipDedup, db0, inputItems, connection,
                   existingRecords, processedItems, sendPos, updPos,
                   pixelSuccess, pixelFailed, dbUpdated, output, lookups,
                   sendCalls, updates, failedAt>>
    /\ UNCHANGED <<payloads, rerun>>

\* The INSERT fails: an undefined bind parameter, a uniqueness violation
\* (the statement adds no row), or a failure of the connection.
InsertFail ==
    /\ pc = "insert"
    /\ LET rows == InsertValues(processedItems)
       IN /\ inserts' = Append(inserts, [rows |-> rows, ok |-> FALSE])
          /\ Raise("insert",
                   IF \E j \in 1..Len(rows) : HasUndefParam(rows[j])
                   THEN "UNKNOWN_ERROR"
                   ELSE IF UniqueViolation(db, rows) THEN "ER_DUP_ENTRY"
                   ELSE "PROTOCOL_CONNECTION_LOST")
    /\ UNCHANGED <<items, dryRun, skipDedup, db, db0, inputItems, connection,
                   existingRecords, processedItems, sendPos, updPos,
                   pixelSuccess, pixelFailed, dbInserted, dbUpdated,
                   lookups, sendCalls, updates>>
    /\ UNCHANGED <<payloads, rerun>>

\* Lines 404-414, one pass of the update loop: the UPDATE succeeds.
UpdateOk ==
    /\ pc = "update"
    /\ LET upd == ExistingToUpdate(processedItems)
           row == WriteParams(processedItems[upd[updPos]].item)
       IN /\ ~HasUndefParam(row)
          /\ updates' = Append(updates, [row |-> row, ok |-> TRUE])
          /\ db' = UpdateRows(db, row)
          /\ dbUpdated' = dbUpdated + 1
          /\ updPos' = updPos + 1
          /\ pc' = IF updPos < Len(upd) THEN "update" ELSE "report"
    /\ UNCHANGED <<items, dryRun, skipDedup, db0, inputItems, connection,
                   existingRecords, processedItems, sendPos, pixelSuccess,
                   pixelFailed, dbInserted, output, lookups, sendCalls,
                   inserts, failedAt>>
    /\ UNCHANGED <<payloads, rerun>>

\* The UPDATE fails: an undefined bind parameter or a failure of the
\* connection.
UpdateFail ==
    /\ pc = "update"
    /\ LET upd == ExistingToUpdate(processedItems)
           row == WriteParams(processedItems[upd[updPos]].item)
       IN /\ updates' = Append(updates, [row |-> row, ok |-> FALSE])
          /\ Raise("update",
                   IF HasUndefParam(row) THEN "UNKNOWN_ERROR"
                   ELSE "PROTOCOL_CONNECTION_LOST")
    /\ UNCHANGED <<items, dryRun, skipDedup, db, db0, inputItems, connection,
                   existingRecords, processedItems, sendPos, updPos,
                   pixelSuccess, pixelFailed, dbInserted, dbUpdated,
                   lookups, sendCalls, inserts>>
    /\ UNCHANGED <<payloads, rerun>>

\* Lines 433-520: the result object is built and returned.
Report ==
    /\ pc = "report"
    /\ output' = Summary(dryRun, Len(items), processedItems, pixelSuccess,
                         pixelFailed, dbInserted, dbUpdated)
    /\ pc' = "finally"
    /\ UNCHANGED <<items, dryRun, skipDedup, db, db0, inputItems, connection,
                   existingRecords, processedItems, sendPos, updPos,
                   pixelSuccess, pixelFailed, dbInserted, dbUpdated,
                   lookups, sendCalls, inserts, updates, failedAt>>
    /\ UNCHANGED <<payloads, rerun>>

\* Lines 550-555: the connection, if there is one, is ended; execute()
\* then returns the result or throws the error object.
Finally ==
    /\ pc = "finally"
    /\ connection' = EndConnection(connection)
    /\ pc' = IF output.kind = "error" THEN "failed" ELSE "done"
    /\ UNCHANGED <<items, dryRun, skipDedup, db, db0, inputItems,
                   existingRecords, processedItems, sendPos, updPos,
                   pixelSuccess, pixelFailed, dbInserted, dbUpdated, output,
                   lookups, sendCalls, inserts, updates, failedAt>>
    /\ UNCHANGED <<payloads, rerun>>

Next ==
    \/ ValidateOk
    \/ ValidateFail
    \/ ConnectOk
    \/ ConnectFail
    \/ QueryOk
    \/ QueryFail
    \/ Classify
    \/ SendItem
    \/ SendPayloadError
    \/ InsertOk
    \/ InsertFail
    \/ UpdateOk
    \/ UpdateFail
    \/ Report
    \/ Finally

Spec == Init /\ [][Next]_vars

\* ------------------------------------------------------------------------
\* Sequences of invocations and a concurrent invocation
\* ------------------------------------------------------------------------
\* The events of the invocations that follow one another: two amounts for
\* t1, an amount with three decimals, an event without parent_api_call and
\* an event without trx_id.
SeqEvents ==
    {Mk("t1", Num(0), Num(0)), Mk("t1", Num(1000), Num(0)),
     Mk("t2", Num(1004), Num(0)),
     [Mk("t2", Num(0), Num(0)) EXCEPT !.parent_api_call = NoStr],
     [BaseEvent EXCEPT !.trx_id = NoStr]}

SeqBatches == UNION {[1..n -> SeqEvents] : n \in 0..MaxEvents}

InitSeq == Init /\ items \in SeqBatches

\* The invocation that has ended made every send and every write it issued
\* without a failure, with reconciliation active and not as a dry run, on a
\* batch of distinct trx_ids.
CleanRun ==
    /\ pc = "done"
    /\ ~dryRun
    /\ ~skipDedup
    /\ pixelFailed = 0
    /\ \A i, j \in 1..Len(items) : items[i].trx_id = items[j].trx_id => i = j

\* execute() has returned or thrown: its locals are gone, the table and
\* the workflow's items and options stay.  rerun remembers, until the next
\* invocation starts, whether this one was clean.
Return ==
    /\ pc \in {"done", "failed"}
    /\ pc' = "idle"
    /\ rerun' = CleanRun
    /\ db0' = db
    /\ inputItems' = <<>>
    /\ connection' = "null"
    /\ existingRecords' = <<>>
    /\ processedItems' = <<>>
    /\ sendPos' = 1
    /\ updPos' = 1
    /\ pixelSuccess' = 0
    /\ pixelFailed' = 0
    /\ dbInserted' = 0
    /\ dbUpdated' = 0
    /\ output' = NoOutput
    /\ lookups' = <<>>
    /\ sendCalls' = <<>>
    /\ inserts' = <<>>
    /\ updates' = <<>>
    /\ failedAt' = "none"
    /\ payloads' = <<>>
    /\ UNCHANGED <<items, dryRun, skipDedup, db>>

\* execute() is entered again (lines 131-143) with a batch and options of
\* the workflow's choice, on the table the earlier invocations left.
Enter ==
    /\ pc = "idle"
    /\ items' \in SeqBatches
    /\ dryRun' \in BOOLEAN
    /\ skipDedup' \in BOOLEAN
    /\ rerun' = (rerun /\ items' = items /\ ~dryRun' /\ ~skipDedup')
    /\ db0' = db
    /\ pc' = "validate"
    /\ UNCHANGED <<db, inputItems, connection, existingRecords,
                   processedItems, sendPos, updPos, pixelSuccess, pixelFailed,
                   dbInserted, dbUpdated, output, lookups, sendCalls, inserts,
                   updates, failedAt, payloads>>

NextSeq == Next \/ Return \/ Enter

SpecSeq == InitSeq /\ [][NextSeq]_vars

\* The INSERT (lines 385-401) of another invocation that runs at the same
\* time on the same table: it adds its row unless the constraint rejects it.
OtherInsert ==
    /\ \E t \in TrxIds :
          LET rows == <<[trx_id |-> Str(<<t>>), amount |-> Num(0),
                         commission_amount |-> Num(0)]>>
          IN /\ ~UniqueViolation(db, rows)
             /\ db' = InsertRows(db, rows)
    /\ UNCHANGED <<items, dryRun, skipDedup, db0, pc, inputItems, connection,
                   existingRecords, processedItems, sendPos, updPos,
                   pixelSuccess, pixelFailed, dbInserted, dbUpdated, output,
                   lookups, sendCalls, inserts, updates, failedAt, payloads,
                   rerun>>

NextRace == Next \/ Return \/ Enter \/ OtherInsert

SpecRace == InitSeq /\ [][NextRace]_vars

TypeOK ==
    /\ pc \in {"validate", "connect", "query", "classify", "send", "insert",
               "update", "report", "finally", "done", "failed", "idle"}
    /\ connection \in {"null", "open", "closed"}
    /\ Len(items) <= MaxEvents

\* ------------------------------------------------------------------------
\* Vocabulary of the properties
\* ------------------------------------------------------------------------
Terminated == pc \in {"done", "failed"}

\* The classification loop has run.
Classified ==
    /\ pc \notin {"validate", "connect", "query", "classify", "idle"}
    /\ failedAt \notin {"validation", "connect", "lookup"}

RequiredFields == {"date", "token", "event", "trx_id", "io_id"}

\* The event lacks a non-empty value for a required field.
LacksRequired(e) ==
    \E f \in RequiredFields : e[f].k = "undef" \/ Len(e[f].s) = 0

\* Two amounts are numerically equal: both are numbers and have one value,
\* whatever their representation.
NumEqual(x, y) == x.k # "undef" /\ y.k # "undef" /\ x.v = y.v

SameAmounts(r, e) ==
    /\ NumEqual(r.amount, e.amount)
    /\ NumEqual(r.commission_amount, e.commission_amount)

RowsOf(seq) == {seq[i] : i \in 1..Len(seq)}

Matching(records, e) == {r \in RowsOf(records) : r.trx_id = e.trx_id}

StatusAt(i) == processedItems[i].status

Sendable == {i \in 1..Len(processedItems) : StatusAt(i) \in {"new", "updated"}}

IsIncreasing(seq) == \A i, j \in 1..Len(seq) : i < j => seq[i] < seq[j]

\* The positions with the property, in input order.
InOrder(n, Test(_)) == SelectSeq([i \in 1..n |-> i], Test)

SentOk(i) == processedItems[i].pixelStatus = "OK"

ParamsAt(i) ==
    [trx_id |-> inputItems[i].trx_id, amount |-> inputItems[i].amount,
     commission_amount |-> inputItems[i].commission_amount]

ExpectedInsertRows ==
    LET new == InOrder(Len(processedItems),
                       LAMBDA i : StatusAt(i) = "new" /\ SentOk(i))
    IN [j \in 1..Len(new) |-> ParamsAt(new[j])]

ExpectedUpdates ==
    LET upd == InOrder(Len(processedItems),
                       LAMBDA i : StatusAt(i) = "updated" /\ SentOk(i))
    IN [j \in 1..Len(upd) |-> ParamsAt(upd[j])]

IssuedUpdates == [j \in 1..Len(updates) |-> updates[j].row]

IsPrefix(s, t) == Len(s) <= Len(t) /\ \A i \in 1..Len(s) : s[i] = t[i]

\* No input event omits an optional field.
FullyPopulated ==
    \A i \in 1..Len(items) :
       /\ items[i].amount.k # "undef"
       /\ items[i].commission_amount.k # "undef"
       /\ items[i].currency.k # "undef"
       /\ items[i].parent_api_call.k # "undef"

NoSideEffect ==
    sendCalls = <<>> /\ inserts = <<>> /\ updates = <<>> /\ db = db0

\* ------------------------------------------------------------------------
\* C1: every validated event is classified new iff no returned Record has
\* its trx_id, duplicate iff such a Record has numerically equal amount and
\* commission_amount, updated iff such a Record differs in one of them; no
\* other field of the event and no other state enters the classification.
\* ------------------------------------------------------------------------
C1_Classification ==
    Classified =>
        /\ Len(processedItems) = Len(inputItems)
        /\ \A i \in 1..Len(inputItems) :
             LET e == inputItems[i]
                 m == Matching(existingRecords, e)
             IN /\ processedItems[i].item = e
                /\ StatusAt(i) = "new" <=> m = {}
                /\ StatusAt(i) = "duplicate" <=> \E r \in m : SameAmounts(r, e)
                /\ StatusAt(i) = "updated" <=> \E r \in m : ~SameAmounts(r, e)

C1_Witness ==
    /\ Classified
    /\ \E i, j \in 1..Len(processedItems) :
         /\ StatusAt(i) = "duplicate"
         /\ inputItems[i].currency # BaseEvent.currency
         /\ StatusAt(j) = "updated"

\* ------------------------------------------------------------------------
\* C2: in a non-dry-run invocation that ends with a Normal result the send
\* capability is called exactly once for each new or updated event, never
\* for a duplicate, in input order, and sent_to_pixel = new_items +
\* updated_items.
\* ------------------------------------------------------------------------
C2_SendOncePerNonDuplicate ==
    /\ IsIncreasing(sendCalls)
    /\ \A k \in 1..Len(sendCalls) : sendCalls[k] \in Sendable
    /\ (pc = "done" /\ ~dryRun) =>
         /\ sendCalls = InOrder(Len(processedItems), LAMBDA i : i \in Sendable)
         /\ output.summary.sent_to_pixel = Cardinality(Sendable)
         /\ output.summary.sent_to_pixel =
              output.summary.new_items + output.summary.updated_items

C2_Witness ==
    /\ pc = "done"
    /\ ~dryRun
    /\ Len(processedItems) = 2
    /\ StatusAt(1) = "duplicate"
    /\ sendCalls = <<2>>

\* ------------------------------------------------------------------------
\* C3 as stated, for events that omit no field: when a non-dry-run
\* invocation with reconciliation active has ended, the mutations issued are
\* exactly one insert statement with one row per new event sent OK and one
\* update per updated event sent OK.
\* ------------------------------------------------------------------------
C3_ExactMutationsAtAnyEnd ==
    (Terminated /\ Classified /\ ~dryRun /\ ~skipDedup /\ FullyPopulated) =>
        /\ inserts = IF ExpectedInsertRows = <<>> THEN <<>>
                     ELSE <<[rows |-> ExpectedInsertRows,
                             ok |-> inserts[1].ok]>>
        /\ IssuedUpdates = ExpectedUpdates

\* ------------------------------------------------------------------------
\* C3 (amended): when a non-dry-run invocation with reconciliation active
\* ends with a Normal result, the mutations issued are exactly one insert
\* statement with one row per new event sent OK and one update per updated
\* event sent OK; in every invocation, however it ends, an insert statement
\* holds exactly the rows of the new events sent OK and the updates issued
\* are the first ones of the updated events sent OK, so a failed send, a
\* duplicate or an updated event never gives an insert row and a failed send
\* or a duplicate never gives an update.
\* ------------------------------------------------------------------------
C3_Mutations ==
    /\ Len(inserts) <= 1
    /\ \A k \in 1..Len(inserts) :
         inserts[k].rows = ExpectedInsertRows /\ inserts[k].rows # <<>>
    /\ IsPrefix(IssuedUpdates, ExpectedUpdates)
    /\ (pc = "done" /\ ~dryRun /\ ~skipDedup) =>
         /\ Len(inserts) = IF ExpectedInsertRows = <<>> THEN 0 ELSE 1
         /\ IssuedUpdates = ExpectedUpdates
         /\ \A k \in 1..Len(inserts) : inserts[k].ok
         /\ \A k \in 1..Len(updates) : updates[k].ok

C3_Witness ==
    /\ pc = "done"
    /\ ~dryRun
    /\ ~skipDedup
    /\ Len(inserts) = 1
    /\ Len(updates) = 1

\* ------------------------------------------------------------------------
\* C4: in dry-run mode no send and no insert or update is ever made and the
\* store is unchanged; the result is the dry-run summary with
\* would_send_to_pixel = new_items + updated_items, status DRY_RUN_SKIPPED
\* and without pixel_success, pixel_failed, db_inserted, db_updated.
\* ------------------------------------------------------------------------
C4_DryRun ==
    dryRun =>
        /\ NoSideEffect
        /\ output.kind # "normal"
        /\ pc = "done" =>
             /\ output.kind = "dry_run"
             /\ output.summary.would_send_to_pixel = Cardinality(Sendable)
             /\ output.summary.would_send_to_pixel =
                  output.summary.new_items + output.summary.updated_items
             /\ output.summary.status = "DRY_RUN_SKIPPED"
             /\ DOMAIN output.summary \cap
                  {"sent_to_pixel", "pixel_success", "pixel_failed",
                   "db_inserted", "db_updated"} = {}

C4_Witness ==
    /\ dryRun
    /\ pc = "done"
    /\ db0 # <<>>
    /\ output.summary.would_send_to_pixel = 2

\* ------------------------------------------------------------------------
\* C5: in skip-reconciliation mode no lookup is issued and no connection is
\* opened, and every event is classified new with no matching Record
\* whatever the store holds, so the transmission set is the whole input.
\* ------------------------------------------------------------------------
C5_SkipDedupAllNew ==
    skipDedup =>
        /\ lookups = <<>>
        /\ connection = "null"
        /\ Classified =>
             /\ Len(processedItems) = Len(items)
             /\ \A i \in 1..Len(processedItems) :
                  /\ StatusAt(i) = "new"
                  /\ processedItems[i].existing = NoRecord
                  /\ processedItems[i].action = "send_to_pixel"
        /\ (pc = "done" /\ ~dryRun) =>
             sendCalls = [i \in 1..Len(items) |-> i]

C5_Witness ==
    /\ skipDedup
    /\ pc = "done"
    /\ ~dryRun
    /\ \E i \in 1..Len(inputItems) :
         \E r \in Matching(db0, inputItems[i]) : SameAmounts(r, inputItems[i])

\* ------------------------------------------------------------------------
\* C6: in skip-reconciliation mode (not dry-run) every event sent OK gives
\* an insert row, so db_inserted equals pixel_success.
\* ------------------------------------------------------------------------
C6_SkipDedupInsertsSuccesses ==
    (pc = "done" /\ skipDedup /\ ~dryRun) =>
        /\ output.summary.db_inserted = output.summary.pixel_success
        /\ output.summary.pixel_success > 0 =>
             /\ Len(inserts) = 1
             /\ inserts[1].rows = ExpectedInsertRows

\* ------------------------------------------------------------------------
\* C7: when the send of a transmission-set event fails, the failure is
\* recorded with a reason, the send is still made for every later event of
\* the transmission set, and the invocation does not end in a fatal error
\* on account of the dispatch.
\* ------------------------------------------------------------------------
C7_SendFailureIsolated ==
    /\ \A i \in 1..Len(processedItems) :
         processedItems[i].pixelStatus = "ERROR" =>
            processedItems[i].pixelError # "none"
    /\ \A k \in 1..Len(sendCalls) :
         (Terminated /\ processedItems[sendCalls[k]].pixelStatus = "ERROR") =>
            /\ \A i \in Sendable :
                 i > sendCalls[k] => \E m \in 1..Len(sendCalls) : sendCalls[m] = i
            /\ failedAt \notin {"insert", "update"} => output.kind = "normal"

\* ------------------------------------------------------------------------
\* C8: when an input event lacks a required field, or the connection or the
\* lookup fails, the invocation ends in a fatal error and makes no send and
\* no insert or update.
\* ------------------------------------------------------------------------
C8_EarlyFailureNoSideEffect ==
    ((\E i \in 1..Len(items) : LacksRequired(items[i]))
        \/ failedAt \in {"connect", "lookup"}) =>
        /\ NoSideEffect
        /\ pc # "done"
        /\ output.kind \notin {"normal", "dry_run"}

C8_Witness ==
    /\ pc = "failed"
    /\ failedAt = "lookup"
    /\ Len(items) = 2
    /\ ~dryRun

\* ------------------------------------------------------------------------
\* C9: if any input event lacks a non-empty required field, the invocation
\* fails with a validation error carrying the zero-based index of the first
\* such event and the expected field names, whatever the other events are,
\* and no event gets a result.
\* ------------------------------------------------------------------------
C9_ValidationAllOrNothing ==
    LET bad == {i \in 1..Len(items) : LacksRequired(items[i])}
    IN (pc # "validate" /\ bad # {}) =>
          /\ pc = "failed"
          /\ output.kind = "validation"
          /\ output.itemIndex + 1 \in bad
          /\ \A i \in bad : output.itemIndex + 1 <= i
          /\ output.expected =
               <<"date", "token", "event", "trx_id", "io_id",
                 "commission_amount", "amount", "currency", "parent_api_call">>
          /\ processedItems = <<>>

C9_Witness ==
    /\ pc = "failed"
    /\ output.kind = "validation"
    /\ output.itemIndex = 1
    /\ ~LacksRequired(items[1])

\* ------------------------------------------------------------------------
\* C10: an event that has the five required fields and omits amount,
\* commission_amount, currency or parent_api_call is processed as if the
\* omitted amount or commission were 0 (so it is a duplicate of a stored
\* Record holding 0 and 0) and its dispatch raises no fatal error.
\* ------------------------------------------------------------------------
OrZero(x) == IF x.k = "undef" THEN Num(0) ELSE x

C10_OmittedFieldsDefault ==
    /\ failedAt # "dispatch"
    /\ Classified =>
         \A i \in 1..Len(processedItems) :
            LET e == inputItems[i]
            IN (\E r \in Matching(existingRecords, e) :
                   /\ NumEqual(r.amount, OrZero(e.amount))
                   /\ NumEqual(r.commission_amount, OrZero(e.commission_amount)))
               => StatusAt(i) = "duplicate"

\* ------------------------------------------------------------------------
\* Vocabulary of the write-failure properties
\* ------------------------------------------------------------------------
WriteFailed == failedAt \in {"insert", "update"}

\* The number of writes of the invocation that succeeded.
SucceededMutations ==
    Cardinality({k \in 1..Len(inserts) : inserts[k].ok})
    + Cardinality({k \in 1..Len(updates) : updates[k].ok})

\* The last successful update of the row with the trx_id of update k.
LastOkUpdate(k) ==
    LET same == {m \in 1..Len(updates) :
                    updates[m].ok /\ updates[m].row.trx_id = updates[k].row.trx_id}
    IN updates[CHOOSE m \in same : \A n \in same : n <= m].row

\* Every successful write of the invocation is in the table.
AppliedWritesKept ==
    /\ \A k \in 1..Len(inserts) :
         inserts[k].ok =>
            \A j \in 1..Len(inserts[k].rows) :
               StoredRow(inserts[k].rows[j]) \in RowsOf(db)
    /\ \A k \in 1..Len(updates) :
         updates[k].ok =>
            \A r \in RowsOf(db) :
               r.trx_id = updates[k].row.trx_id => r = StoredRow(LastOkUpdate(k))

\* ------------------------------------------------------------------------
\* C11: when the batch insert or an update fails, no further mutation is
\* issued, the mutations already applied stay in the table, the sends made
\* stay made, and the invocation ends in a fatal error, not a Normal result.
\* ------------------------------------------------------------------------
C11_WriteFailureStopsMutations ==
    WriteFailed =>
        /\ pc \in {"finally", "failed"}
        /\ output.kind = "error"
        /\ failedAt = "insert" =>
             /\ Len(inserts) = 1
             /\ ~inserts[1].ok
             /\ updates = <<>>
             /\ db = db0
        /\ failedAt = "update" =>
             /\ \A k \in 1..Len(inserts) : inserts[k].ok
             /\ Len(updates) >= 1
             /\ ~updates[Len(updates)].ok
             /\ \A k \in 1..(Len(updates) - 1) : updates[k].ok
        /\ AppliedWritesKept
        /\ Len(db) = Len(db0)
             + (IF failedAt = "update" /\ Len(inserts) = 1
                THEN Len(inserts[1].rows) ELSE 0)
        /\ Len(sendCalls) = Cardinality(Sendable)
        /\ pixelSuccess = Cardinality({i \in Sendable : SentOk(i)})

C11_Witness ==
    /\ pc = "failed"
    /\ failedAt = "update"
    /\ Len(inserts) = 1
    /\ db # db0
    /\ pixelSuccess = 2

\* ------------------------------------------------------------------------
\* C12 as stated: the fatal error of a mutation failure carries the number
\* of mutations that had succeeded before the failing write.
\* ------------------------------------------------------------------------
C12_ErrorCarriesSucceededCount ==
    (WriteFailed /\ output.kind = "error") =>
        output.summary.processed = SucceededMutations

\* ------------------------------------------------------------------------
\* C12 (amended): the fatal error of a mutation failure carries no count of
\* the mutations that had succeeded: it holds the error code and stage and
\* the summary {total_input, processed: 0}, whatever was already written.
\* ------------------------------------------------------------------------
C12_ErrorCarriesNoCount ==
    WriteFailed =>
        /\ DOMAIN output = {"kind", "success", "error", "summary"}
        /\ DOMAIN output.error = {"code", "stage"}
        /\ DOMAIN output.summary = {"total_input", "processed"}
        /\ output.summary.total_input = Len(items)
        /\ output.summary.processed = 0

C12_Witness ==
    /\ pc = "failed"
    /\ failedAt = "update"
    /\ SucceededMutations = 1
    /\ output.summary.total_input = 2

\* ------------------------------------------------------------------------
\* C13 as stated: every invocation that ends in a fatal error, at whatever
\* stage, validation included, yields the Error result shape.
\* ------------------------------------------------------------------------
IsErrorShape(o) ==
    /\ o.kind = "error"
    /\ o.success = FALSE
    /\ DOMAIN o.error = {"code", "stage"}
    /\ o.summary = [total_input |-> Len(items), processed |-> 0]

C13_EveryFatalHasErrorShape ==
    (pc = "failed" \/ failedAt # "none") => IsErrorShape(output)

\* ------------------------------------------------------------------------
\* C13 (amended): an invocation that fails at the connection, the lookup,
\* the dispatch or a mutation yields the Error result shape
\* (success = false, an error block, summary {total_input, processed: 0});
\* one that fails validation throws the validation error with the item
\* index instead; none of them yields a Normal or dry-run shaped result.
\* ------------------------------------------------------------------------
C13_FatalShapes ==
    /\ failedAt = "validation" =>
         /\ pc = "failed"
         /\ output.kind = "validation"
         /\ DOMAIN output = {"kind", "itemIndex", "expected"}
    /\ failedAt \in {"connect", "lookup", "dispatch", "insert", "update"} =>
         /\ pc \in {"finally", "failed"}
         /\ IsErrorShape(output)
    /\ pc = "failed" => failedAt # "none"
    /\ pc = "done" =>
         /\ failedAt = "none"
         /\ output.kind \in {"normal", "dry_run"}

C13_Witness ==
    /\ pc = "failed"
    /\ failedAt = "dispatch"
    /\ IsErrorShape(output)
    /\ sendCalls # <<>>

\* ------------------------------------------------------------------------
\* C14: whenever an invocation opened a record-store connection, the
\* connection is released when the invocation has ended, on every exit
\* path: Normal or dry-run result, lookup failure, exception in dispatch,
\* mutation failure.
\* ------------------------------------------------------------------------
C14_ConnectionReleased ==
    /\ Terminated => connection # "open"
    /\ (Terminated /\ ~skipDedup /\ failedAt \notin {"validation", "connect"}) =>
         connection = "closed"
    /\ connection = "closed" => Terminated

C14_Witness ==
    /\ pc = "failed"
    /\ failedAt = "insert"
    /\ connection = "closed"

\* ------------------------------------------------------------------------
\* C15: events of one invocation with the same trx_id are each classified
\* against the same stored Record (or its absence), and after the
\* invocation the Record of that trx_id holds the amount and commission of
\* the last of them, in input order, whose send succeeded, whether the
\* trx_id was stored before or not.  Stated for events that omit no field
\* and for invocations in which the connection is not lost.
\* ------------------------------------------------------------------------
SameTrx(i, j) == inputItems[i].trx_id = inputItems[j].trx_id

\* The last position, in input order, of an event with the trx_id of event
\* i whose send returned OK.
LastSentOk(i) ==
    LET same == {j \in 1..Len(processedItems) : SameTrx(i, j) /\ SentOk(j)}
    IN CHOOSE j \in same : \A m \in same : m <= j

ConnectionLost ==
    output.kind = "error" /\ output.error.code = "PROTOCOL_CONNECTION_LOST"

C15_InBatchLastWriteWins ==
    /\ Classified =>
         \A i, j \in 1..Len(processedItems) :
            SameTrx(i, j) =>
               processedItems[i].existing = processedItems[j].existing
    /\ (Terminated /\ Classified /\ ~dryRun /\ ~skipDedup /\ FullyPopulated
          /\ ~ConnectionLost) =>
         \A i \in 1..Len(processedItems) :
            SentOk(i) =>
               \E r \in RowsOf(db) :
                  /\ r = StoredRow(ParamsAt(LastSentOk(i)))
                  /\ \A q \in RowsOf(db) : q.trx_id = r.trx_id => q = r

\* ------------------------------------------------------------------------
\* C16
\* ------------------------------------------------------------------------
HasRecord(table, t) == \E i \in 1..Len(table) : table[i].trx_id = t

OneRecordPerTrxId ==
    \A i, j \in 1..Len(db) : db[i].trx_id = db[j].trx_id => i = j

\* The INSERT about to be issued holds a trx_id that the table already has.
InsertCollides ==
    LET rows == InsertValues(processedItems)
    IN \E j \in 1..Len(rows) : HasRecord(db, rows[j].trx_id)

InsertBindsDefined ==
    LET rows == InsertValues(processedItems)
    IN \A j \in 1..Len(rows) : ~HasUndefParam(rows[j])

\* C16: whatever invocations follow one another, with batches that repeat a
\* trx_id and with another invocation inserting into the same table at the
\* same time, the table never holds two rows with one trx_id; an INSERT
\* that holds a trx_id already stored adds no row and makes the invocation
\* raise (ER_DUP_ENTRY when its bind parameters are defined), and an
\* invocation whose INSERT failed never ends with a result.
C16_OneRecordPerTrxId ==
    /\ [](OneRecordPerTrxId /\ (failedAt = "insert" => pc \in {"finally", "failed"}))
    /\ [][(pc = "insert" /\ pc' # "insert" /\ InsertCollides) =>
            /\ db' = db
            /\ failedAt' = "insert"
            /\ output'.kind = "error"
            /\ ~output'.success
            /\ InsertBindsDefined => output'.error.code = "ER_DUP_ENTRY"]_vars

\* An id that was not stored when the invocation started is inserted by
\* the other invocation first; this invocation's INSERT of that single id
\* is rejected and the table keeps one row for it.
C16_Witness ==
    /\ pc = "failed"
    /\ failedAt = "insert"
    /\ output.error.code = "ER_DUP_ENTRY"
    /\ Len(inserts) = 1
    /\ Len(inserts[1].rows) = 1
    /\ ~HasRecord(db0, inserts[1].rows[1].trx_id)
    /\ HasRecord(db, inserts[1].rows[1].trx_id)

\* ------------------------------------------------------------------------
\* C17
\* ------------------------------------------------------------------------
AllDuplicate ==
    Classified /\ \A i \in 1..Len(processedItems) : StatusAt(i) = "duplicate"

Idle == sendCalls = <<>> /\ inserts = <<>> /\ updates = <<>> /\ db = db0

\* C17: an invocation that classifies every event `duplicate` sends
\* nothing, writes nothing and leaves the table as it found it; and the
\* invocation that repeats the batch (distinct trx_ids, reconciliation
\* active, not a dry run) of an invocation whose sends and writes all
\* succeeded classifies every event `duplicate`, sends nothing and writes
\* nothing.
C17_RerunIsIdle ==
    /\ (Terminated /\ AllDuplicate) => Idle
    /\ (rerun /\ Classified) => AllDuplicate
    /\ (rerun /\ Terminated) => Idle

\* ------------------------------------------------------------------------
\* C18
\* ------------------------------------------------------------------------
IsDistinct(seq) == \A i, j \in 1..Len(seq) : seq[i] = seq[j] => i = j

\* The invocation got as far as the lookup.
PastLookup ==
    /\ pc \notin {"validate", "connect", "query", "idle"}
    /\ failedAt \notin {"validation", "connect"}

InputTrxIds == [i \in 1..Len(items) |-> items[i].trx_id]

\* C18 as stated: with reconciliation active the lookup is called exactly
\* once, before any send, with the distinct trx_ids of the input, each
\* identifier once.
C18_LookupOnceDistinctIds ==
    (~skipDedup /\ PastLookup) =>
        /\ Len(lookups) = 1
        /\ IsDistinct(lookups[1])
        /\ RowsOf(lookups[1]) = RowsOf(InputTrxIds)

\* C18: with reconciliation active the lookup is called at most once, and
\* exactly once as soon as validation and the connection have succeeded,
\* whatever the number of events; no send is made before it; it is passed
\* the trx_id of every event in input order, an identifier as many times
\* as the input holds it.  Without reconciliation no lookup is made.
C18_LookupOnceAllIds ==
    /\ Len(lookups) <= 1
    /\ skipDedup => lookups = <<>>
    /\ (~skipDedup /\ PastLookup) => Len(lookups) = 1
    /\ (~skipDedup /\ sendCalls # <<>>) => Len(lookups) = 1
    /\ \A k \in 1..Len(lookups) : lookups[k] = InputTrxIds

\* Two events with one trx_id: one lookup, holding the id twice, and both
\* events sent after it.
C18_Witness ==
    /\ Terminated
    /\ ~skipDedup
    /\ Len(items) = 2
    /\ Len(lookups) = 1
    /\ ~IsDistinct(lookups[1])
    /\ Len(sendCalls) = 2

\* ------------------------------------------------------------------------
\* C19
\* ------------------------------------------------------------------------
StageOf(step) ==
    IF step \in {"connect", "lookup"} THEN "deduplication_check"
    ELSE IF step = "dispatch" THEN "pixel_send"
    ELSE "execution"

\* C19: the error object's stage names the step that failed:
\* deduplication_check when the connection or the lookup failed, pixel_send
\* when the failure arose in dispatch, execution otherwise.
C19_StageNamesFailedStep ==
    output.kind = "error" => output.error.stage = StageOf(failedAt)

\* ------------------------------------------------------------------------
\* C20
\* ------------------------------------------------------------------------
Contains(s, pat) == \E p \in 0..Len(s) : OccursAt(s, pat, p)

\* v is what follows the first occurrence of pat in s.
FollowsFirst(s, pat, v) ==
    \E p \in 0..Len(s) :
       /\ OccursAt(s, pat, p)
       /\ \A q \in 0..(p - 1) : ~OccursAt(s, pat, q)
       /\ v = SubSeq(s, p + Len(pat) + 1, Len(s))

\* C20: in every payload passed to httpRequest, fico is null iff the
\* event's parent_api_call does not contain "fico"; when it contains
\* "fico", fico is the part of parent_api_call that follows the first
\* occurrence of "fico:", also when "fico" is not followed by a colon.
C20_FicoFollowsFirstTag ==
    \A k \in 1..Len(payloads) :
       LET s == payloads[k].parent_api_call.s
           fico == payloads[k].fico
       IN /\ fico = Null <=> ~Contains(s, <<"f", "i", "c", "o">>)
          /\ Contains(s, <<"f", "i", "c", "o">>) =>
                /\ fico.k = "str"
                /\ FollowsFirst(s, <<"f", "i", "c", "o", ":">>, fico.s)

\* ------------------------------------------------------------------------
\* C21
\* ------------------------------------------------------------------------
\* Every send of the transmission set has been made.
DispatchComplete ==
    /\ Classified
    /\ Len(sendCalls) = Len(ToSend(processedItems))
    /\ sendPos = Len(ToSend(processedItems)) + 1

\* The bind parameters are those of an event of this invocation whose send
\* returned OK.
FromSentEvent(row) ==
    \E i \in 1..Len(processedItems) : SentOk(i) /\ row = ParamsAt(i)

IssuedWriteRows ==
    UNION {RowsOf(inserts[k].rows) : k \in 1..Len(inserts)}
    \cup {updates[k].row : k \in 1..Len(updates)}

\* A step that changes the table keeps every row's position and trx_id,
\* and each row it adds or changes is what the table stores for the bind
\* parameters of an event sent OK.
TableStep ==
    db' # db =>
       /\ pc \in {"insert", "update"}
       /\ DispatchComplete
       /\ Len(db') >= Len(db)
       /\ \A j \in 1..Len(db) : db'[j].trx_id = db[j].trx_id
       /\ \A j \in 1..Len(db') :
             (j > Len(db) \/ db'[j] # db[j]) =>
                \E i \in 1..Len(processedItems) :
                   SentOk(i) /\ db'[j] = StoredRow(ParamsAt(i))

\* C21: an INSERT or UPDATE is issued only when every send of the
\* transmission set has been made, and each row it binds holds the trx_id,
\* amount and commission_amount of an event of the invocation whose send
\* returned OK; over invocations that follow one another the table changes
\* only by such rows, and a stored row never changes its trx_id.
C21_WritesFollowSends ==
    /\ []((inserts # <<>> \/ updates # <<>>) =>
             /\ DispatchComplete
             /\ \A row \in IssuedWriteRows : FromSentEvent(row))
    /\ [][TableStep]_vars

\* A later invocation, on a table an earlier one filled: t1 is sent OK
\* and updated, the send of t2 fails and its row stays as it was.
C21_Witness ==
    /\ pc = "done"
    /\ Len(db0) = 2
    /\ db0[1].trx_id = Str(<<"t1">>)
    /\ pixelFailed = 1
    /\ Len(updates) = 1
    /\ updates[1].ok
    /\ updates[1].row.trx_id = Str(<<"t1">>)
    /\ db[1] # db0[1]
    /\ db[2] = db0[2]

\* ------------------------------------------------------------------------
\* C22
\* ------------------------------------------------------------------------
ZeroCounts(o) ==
    /\ o.summary.total_input = 0
    /\ o.summary.new_items = 0
    /\ o.summary.exact_duplicates = 0
    /\ o.summary.updated_items = 0
    /\ o.kind = "normal" =>
          /\ o.summary.sent_to_pixel = 0
          /\ o.summary.pixel_success = 0
          /\ o.summary.pixel_failed = 0
          /\ o.summary.db_inserted = 0
          /\ o.summary.db_updated = 0
    /\ o.kind = "dry_run" => o.summary.would_send_to_pixel = 0

\* C22: with reconciliation active and the connection made, an invocation
\* on an empty input never issues a lookup with an empty id list, and it
\* ends with a normal or dry-run result whose counts are all zero, without
\* a send and without a write.
C22_EmptyInputEndsNormally ==
    (items = <<>> /\ ~skipDedup /\ failedAt # "connect") =>
        /\ \A k \in 1..Len(lookups) : lookups[k] # <<>>
        /\ Terminated =>
              /\ output.kind \in {"normal", "dry_run"}
              /\ ZeroCounts(output)
              /\ sendCalls = <<>>
              /\ inserts = <<>>
              /\ updates = <<>>

====
